---- MODULE Spec2Model ----
(***************************************************************************)
(* State-machine model of capture_pdf (dong99u/kyobo_capture): one run of *)
(* an entry point (the screenshot, button and compile commands, the       *)
(* legacy main, or a direct call of PDFCompiler.compile, of               *)
(* PDFCompiler.compile_from_files or of a Navigator page method),         *)
(* stepped at the granularity of the platform calls it makes.             *)
(*                                                                         *)
(* Durations are integers in milliseconds (0.05 s = 50).  An image is a   *)
(* record: id names the capture (or file, or input position) it comes     *)
(* from, how records what the compiler did to it.                         *)
(***************************************************************************)
EXTENDS Integers, Sequences, FiniteSets, TLC

VARIABLES
  args,         \* the entry point and its arguments
  env,          \* the platform: permissions, display, folder contents
  pc,           \* position of the single control thread
  i,            \* loop index of capture_book / capture_with_button / compile_from_files
  images,       \* the page list of capture_book, the images compile_from_files opened
  target,       \* which button click_and_wait is clicking
  image_files,  \* the compile command's file list
  log,          \* trace of the calls made and events posted, in order
  out_exists,   \* the run has created the output file
  pdf,          \* pages of the output document
  outcome       \* "running", "returned", "exit1", "raised", "killed"

vars == <<args, env, pc, i, images, target, image_files, log, out_exists, pdf, outcome>>

----------------------------------------------------------------------------
\* Bounds of the model.
MaxPages == 3
MaxDim == 2
MaxPlat == 3
MaxLen == 3
MaxFiles == 3
MaxTime == 3
MaxFaults == 1

\* Program constants.
RIGHT_ARROW == 124
LEFT_ARROW == 123
NO_MODIFIERS == 0
KEY_DELAY_MS == 50
CLICK_MOVE_DELAY_MS == 50
CLICK_DOWN_DELAY_MS == 50
CLICK_UP_DELAY_MS == 100
START_DELAY_MS == 3000
DEFAULT_DELAY_MS == 1000
CAPTURE_DELAY_MS == 500
CONFIRM_DELAY_MS == 300
DEFAULT_DPI == 150
PDF_UNITS_PER_INCH == 72
SAMPLE_WIDTH == 800
SAMPLE_HEIGHT == 1000

----------------------------------------------------------------------------
\* Values.

Ev(op, a, b) == [op |-> op, a |-> a, b |-> b]

BoolInt(flag) == IF flag THEN 1 ELSE 0

Reverse(s) == [k \in 1..Len(s) |-> s[Len(s) + 1 - k]]

Modes == {"RGB", "RGBA", "LA", "L", "P"}

\* Pillow modes whose last band is an alpha channel.
HasAlpha(mode) == mode \in {"RGBA", "LA"}

Img(id, mode, w, h) ==
  [id |-> id, mode |-> mode, width |-> w, height |-> h,
   resampled |-> FALSE, how |-> "asis"]

\* CaptureRegion: x, y, width, height as parse_region accepts them.
Regions == {[x |-> 0, y |-> 0, width |-> w, height |-> h] : w \in 0..MaxDim, h \in 0..MaxDim}

\* Optional[...]: <<>> is None, <<v>> is v.
None == <<>>
Some(v) == <<v>>

\* Screen positions of the host application's capture and confirm buttons.
CapturePoint == [x |-> 5, y |-> 7]
ConfirmPoint == [x |-> 6, y |-> 8]

Delays == {DEFAULT_DELAY_MS, 250}

PlatSizes == {[width |-> w, height |-> h] : w \in 1..MaxPlat, h \in 1..MaxPlat}

Files == [name : 1..MaxFiles, mtime : 1..MaxTime]

\* The lists a glob can return: no file twice.
Globs ==
  UNION {{f \in [1..n -> Files] : \A a, b \in 1..n : a # b => f[a].name # f[b].name}
         : n \in 0..MaxFiles}

\* The test suite's sample image: Image.new('RGB', (800, 1000)).
sample_image == Img(1, "RGB", SAMPLE_WIDTH, SAMPLE_HEIGHT)

ImageSeqs ==
  UNION {{[k \in 1..n |-> Img(k, m[k], 1 + (k % 2), 2)] : m \in [1..n -> Modes]}
         : n \in 0..MaxLen}
    \cup {<<sample_image>>}

\* Resolutions a caller passes as dpi.
Dpis == {DEFAULT_DPI, PDF_UNITS_PER_INCH}

DefaultArgs ==
  [cmd |-> "screenshot", pages |-> 0, region |-> None, delay |-> DEFAULT_DELAY_MS,
   capture_button |-> CapturePoint, confirm_button |-> None,
   sort |-> "name", images |-> <<>>, dpi |-> DEFAULT_DPI]

DefaultEnv ==
  [screen_ok |-> TRUE, access_ok |-> TRUE, size |-> [width |-> 1, height |-> 1],
   files |-> <<>>]

----------------------------------------------------------------------------
\* capturer.py

cg_image_to_pil(id, size) == Img(id, "RGBA", size.width, size.height)

\* Faulty variant: "and" for "or".
SizeDiffers_both(image, region) ==
  image.width # region.width /\ image.height # region.height

SizeDiffers(image, region) ==
  image.width # region.width \/ image.height # region.height

ResizeTo(image, region) ==
  [image EXCEPT !.width = region.width, !.height = region.height, !.resampled = TRUE]

capture_region(region, image) ==
  IF SizeDiffers(image, region) THEN ResizeTo(image, region) ELSE image

\* Image.resize refuses a target without a positive width and height.
ResizeMayRaise(region, image) ==
  SizeDiffers(image, region) /\ (region.width < 1 \/ region.height < 1)

----------------------------------------------------------------------------
\* pdf_compiler.py

NoImages(imgs) == Len(imgs) = 0

ToRGB(img) ==
  IF img.mode = "RGBA" THEN [img EXCEPT !.mode = "RGB", !.how = "paste_on_white"]
  ELSE IF img.mode # "RGB" THEN [img EXCEPT !.mode = "RGB", !.how = "convert"]
  ELSE img

\* Faulty variant: each converted image is put in front of the list.
rgb_images_prepend(imgs) == [k \in 1..Len(imgs) |-> ToRGB(imgs[Len(imgs) + 1 - k])]

rgb_images(imgs) == [k \in 1..Len(imgs) |-> ToRGB(imgs[k])]

\* Faulty variant: append_images=rgb_images[2:].
SavePDF_skip(rgb) ==
  IF Len(rgb) > 1 THEN <<rgb[1]>> \o SubSeq(rgb, 3, Len(rgb)) ELSE <<rgb[1]>>

\* first_image.save(..., append_images=rgb_images[1:]): the document's pages.
SavePDF(rgb) ==
  IF Len(rgb) > 1 THEN <<rgb[1]>> \o SubSeq(rgb, 2, Len(rgb)) ELSE <<rgb[1]>>

\* The page box the PDF writer derives from the pixel size and resolution=dpi:
\* width * 72 / dpi by height * 72 / dpi PDF units, kept as exact fractions.
MediaBox(img, dpi) ==
  [width_num |-> img.width * PDF_UNITS_PER_INCH,
   height_num |-> img.height * PDF_UNITS_PER_INCH, den |-> dpi]

\* save(output_path, "PDF", ..., resolution=dpi): every page gets its box.
AtResolution(pages, dpi) ==
  [k \in 1..Len(pages) |->
     [id |-> pages[k].id, mode |-> pages[k].mode, width |-> pages[k].width,
      height |-> pages[k].height, resampled |-> pages[k].resampled,
      how |-> pages[k].how, mediabox |-> MediaBox(pages[k], dpi)]]

----------------------------------------------------------------------------
\* cli.py: loop conditions of capture_book and capture_with_button.

\* Faulty variant: range(page_count - 1).
InRange_short(idx, page_count) == idx < page_count - 1

\* Faulty variant: range(page_count + 1).
InRange_inclusive(idx, page_count) == idx <= page_count

\* for i in range(page_count): the loop goes on.
InRange(idx, page_count) == idx < page_count

\* Faulty variant: i < page_count.
NotLastPage_always(idx, page_count) == idx < page_count

\* if i < page_count - 1: navigate.
NotLastPage(idx, page_count) == idx < page_count - 1

\* Faulty variant: the result of the check is ignored.
Denied_never(granted) == FALSE

\* if not check_...(): echo the error, sys.exit(1).
Denied(granted) == ~granted

\* Faulty variant: the handler swallows the exception and the loop goes on.
Abort_swallow(pre) ==
  /\ log' = log \o pre \o <<Ev("raise", 0, 0)>>
  /\ outcome' = outcome
  /\ pc' = IF args.cmd = "button" THEN "bt_loop" ELSE "cb_loop"

\* except Exception: echo the error, sys.exit(1).
Abort(pre) ==
  /\ log' = log \o pre \o <<Ev("raise", 0, 0)>>
  /\ outcome' = "exit1"
  /\ pc' = "done"

\* Event creations that returned None and were posted without an error so far.
SilentFaults == Cardinality({k \in 1..Len(log) : log[k].op = "post_none"})

\* A call of a Navigator method from outside the command line's loops: the
\* exception goes to the caller.
DirectCalls == {"next_page", "previous_page", "navigate_and_wait"}

Raise(pre) ==
  IF args.cmd \in DirectCalls
    THEN /\ log' = log \o pre \o <<Ev("raise", 0, 0)>>
         /\ outcome' = "raised"
         /\ pc' = "done"
    ELSE Abort(pre)

\* The page method that is running: previous_page only when called directly.
PageCall == IF args.cmd = "previous_page" THEN "previous_page" ELSE "next_page"

\* Faulty variant: the two arrow keys are swapped.
PageKey_swapped(call) == IF call = "previous_page" THEN RIGHT_ARROW ELSE LEFT_ARROW

\* next_page: press_key(KeyCode.RIGHT_ARROW); previous_page: press_key(KeyCode.LEFT_ARROW).
PageKey(call) == IF call = "previous_page" THEN LEFT_ARROW ELSE RIGHT_ARROW

\* The calls down to press_key; modifiers keeps its default.
NavEntry ==
  (IF args.cmd \in {"next_page", "previous_page"} THEN <<>>
   ELSE <<Ev("navigate_and_wait", 0, 0)>>)
  \o <<Ev(PageCall, 0, 0), Ev("press_key", PageKey(PageCall), NO_MODIFIERS)>>

\* press_key has returned: next_page and previous_page return, navigate_and_wait goes on.
AfterPressKey ==
  /\ pc' = IF args.cmd \in {"next_page", "previous_page"} THEN "done" ELSE "wait_page"
  /\ outcome' = IF args.cmd \in {"next_page", "previous_page"} THEN "returned" ELSE outcome

LoopPc == IF args.cmd = "button" THEN "bt_loop" ELSE "cb_loop"

TargetPoint == IF target = "confirm" THEN args.confirm_button[1] ELSE args.capture_button

\* Faulty variant: the confirm click waits the capture delay.
TargetWait_capture == CAPTURE_DELAY_MS

\* click_and_wait(*capture_button, capture_delay) / (*confirm_button, confirm_delay).
TargetWait == IF target = "confirm" THEN CONFIRM_DELAY_MS ELSE CAPTURE_DELAY_MS

----------------------------------------------------------------------------
\* cli.py: the compile command's file order.

\* Faulty variant: the empty check is gone.
NoFiles_never(files) == FALSE

NoFiles(files) == Len(files) = 0

Key(f, by) == IF by = "mtime" THEN f.mtime ELSE f.name

RECURSIVE Insert(_, _, _)
Insert(s, f, by) ==
  IF s = <<>> THEN <<f>>
  ELSE IF Key(f, by) < Key(Head(s), by) THEN <<f>> \o s
  ELSE <<Head(s)>> \o Insert(Tail(s), f, by)

\* list.sort(key=...): stable, ascending.
RECURSIVE StableSort(_, _)
StableSort(s, by) ==
  IF s = <<>> THEN <<>>
  ELSE Insert(StableSort(SubSeq(s, 1, Len(s) - 1), by), s[Len(s)], by)

\* Faulty variant: reverse=True is dropped.
StableSortReverse_dropped(s, by) == StableSort(s, by)

\* list.sort(key=..., reverse=True): descending, equal keys keep their order.
StableSortReverse(s, by) == Reverse(StableSort(Reverse(s), by))

SortFiles(files, sort) ==
  IF sort = "time" THEN StableSort(files, "mtime")
  ELSE IF sort = "time-desc" THEN StableSortReverse(files, "mtime")
  ELSE StableSort(files, "name")

\* img2pdf.convert: one page per file, in list order.
ConvertFiles(files) == [k \in 1..Len(files) |-> Img(files[k].name, "RGB", 1, 1)]


----------------------------------------------------------------------------
Init ==
  /\ \/ /\ args \in {[DefaultArgs EXCEPT !.cmd = c, !.pages = n, !.region = r, !.delay = d] :
                       c \in {"screenshot", "main"}, n \in -1..MaxPages,
                       r \in {None} \cup {Some(g) : g \in Regions}, d \in Delays}
        /\ env \in {[DefaultEnv EXCEPT !.screen_ok = s, !.access_ok = a, !.size = z] :
                      s \in BOOLEAN, a \in BOOLEAN, z \in PlatSizes}
        /\ pc = "check_screen"
     \/ /\ args \in {[DefaultArgs EXCEPT !.cmd = "button", !.pages = n, !.confirm_button = c,
                                          !.delay = d] :
                       n \in -1..MaxPages, c \in {None, Some(ConfirmPoint)}, d \in Delays}
        /\ env \in {[DefaultEnv EXCEPT !.screen_ok = s, !.access_ok = a] :
                      s \in BOOLEAN, a \in BOOLEAN}
        /\ pc = "check_access"
     \/ /\ args \in {[DefaultArgs EXCEPT !.cmd = "compile", !.sort = o] :
                       o \in {"name", "time", "time-desc"}}
        /\ env \in {[DefaultEnv EXCEPT !.files = g] : g \in Globs}
        /\ pc = "cc_glob"
     \/ /\ args \in {[DefaultArgs EXCEPT !.cmd = "pdf_compile", !.images = q, !.dpi = r] :
                       q \in ImageSeqs, r \in Dpis}
        /\ env = DefaultEnv
        /\ pc = "pdf_compile"
     \/ /\ args \in {[DefaultArgs EXCEPT !.cmd = "compile_from_files", !.images = q, !.dpi = r] :
                       q \in ImageSeqs, r \in Dpis}
        /\ env = DefaultEnv
        /\ pc = "cff_open"
     \/ /\ args \in {[DefaultArgs EXCEPT !.cmd = c, !.delay = d] : c \in DirectCalls, d \in Delays}
        /\ env = DefaultEnv
        /\ pc = "pk_down"
  /\ i = 0
  /\ images = <<>>
  /\ target = "none"
  /\ image_files = <<>>
  /\ log = <<>>
  /\ out_exists = FALSE
  /\ pdf = <<>>
  /\ outcome = "running"

----------------------------------------------------------------------------
\* screenshot (cli.py 152-177) and main (cli.py 258-270): permission checks.

CheckScreenRecording ==
  /\ pc = "check_screen"
  /\ IF Denied(env.screen_ok)
       THEN /\ log' = Append(log, Ev("check_screen", BoolInt(env.screen_ok), 0))
            /\ outcome' = "exit1"
            /\ pc' = "done"
       ELSE /\ log' = Append(log, Ev("check_screen", BoolInt(env.screen_ok), 0))
            /\ pc' = "check_access"
            /\ UNCHANGED outcome
  /\ UNCHANGED <<args, env, i, images, target, image_files, out_exists, pdf>>

CheckAccessibility ==
  /\ pc = "check_access"
  /\ IF Denied(env.access_ok)
       THEN /\ log' = Append(log, Ev("check_access", BoolInt(env.access_ok), 0))
            /\ outcome' = "exit1"
            /\ pc' = "done"
       ELSE /\ log' = log \o <<Ev("check_access", BoolInt(env.access_ok), 0),
                               Ev(IF args.cmd = "button" THEN "capture_with_button"
                                  ELSE "capture_book", args.pages, 0)>>
            /\ pc' = IF args.cmd = "button" THEN "bt_start" ELSE "cb_loop"
            /\ UNCHANGED outcome
  /\ UNCHANGED <<args, env, i, images, target, image_files, out_exists, pdf>>

----------------------------------------------------------------------------
\* capture_book (cli.py 43-77).

\* One pass of the loop body up to the navigation: capture, append.
CbCapture ==
  /\ pc = "cb_loop"
  /\ InRange(i, args.pages)
  /\ \/ \* CGWindowListCreateImage returned None: RuntimeError
        /\ Abort(<<Ev("capture_failed", i + 1, 0)>>)
        /\ UNCHANGED <<i, images>>
     \/ \* capture_full_screen
        /\ args.region = None
        /\ images' = Append(images, cg_image_to_pil(i + 1, env.size))
        /\ log' = Append(log, Ev("capture", i + 1, 0))
        /\ pc' = IF NotLastPage(i, args.pages) THEN "pk_down" ELSE "cb_loop"
        /\ i' = IF NotLastPage(i, args.pages) THEN i ELSE i + 1
        /\ UNCHANGED outcome
     \/ \* capture_region
        /\ args.region # None
        /\ images' = Append(images,
                            capture_region(args.region[1], cg_image_to_pil(i + 1, env.size)))
        /\ log' = Append(log, Ev("capture", i + 1, 0))
        /\ pc' = IF NotLastPage(i, args.pages) THEN "pk_down" ELSE "cb_loop"
        /\ i' = IF NotLastPage(i, args.pages) THEN i ELSE i + 1
        /\ UNCHANGED outcome
     \/ \* capture_region: the resize raised
        /\ args.region # None
        /\ ResizeMayRaise(args.region[1], cg_image_to_pil(i + 1, env.size))
        /\ Abort(<<Ev("capture_failed", i + 1, 0)>>)
        /\ UNCHANGED <<i, images>>
  /\ UNCHANGED <<args, env, target, image_files, out_exists, pdf>>

\* compiler.compile(images, output_path) after the loop.
CbCompile ==
  /\ pc = "cb_loop"
  /\ ~InRange(i, args.pages)
  /\ \/ \* ValueError("No images provided")
        /\ NoImages(images)
        /\ Abort(<<Ev("compile", Len(images), 0)>>)
        /\ UNCHANGED <<out_exists, pdf>>
     \/ /\ ~NoImages(images)
        /\ log' = Append(log, Ev("compile", Len(images), 0))
        /\ pdf' = AtResolution(SavePDF(rgb_images(images)), DEFAULT_DPI)
        /\ out_exists' = TRUE
        /\ outcome' = "returned"
        /\ pc' = "done"
     \/ \* the save failed (output path unwritable): a partial file may stay
        /\ ~NoImages(images)
        /\ Abort(<<Ev("compile", Len(images), 0)>>)
        /\ out_exists' \in BOOLEAN
        /\ UNCHANGED pdf
  /\ UNCHANGED <<args, env, i, images, target, image_files>>

----------------------------------------------------------------------------
\* navigator.py: press_key via next_page via navigate_and_wait.

\* next_page / previous_page -> press_key: create and post the key-down event.
PressKeyDown ==
  /\ pc = "pk_down"
  /\ \/ \* CGEventCreateKeyboardEvent returned None: RuntimeError
        /\ Raise(NavEntry)
     \/ /\ log' = log \o NavEntry \o <<Ev("key_down", PageKey(PageCall), NO_MODIFIERS),
                                        Ev("sleep", KEY_DELAY_MS, 0)>>
        /\ pc' = "pk_up"
        /\ UNCHANGED outcome
  /\ UNCHANGED <<args, env, i, images, target, image_files, out_exists, pdf>>

\* press_key: create and post the key-up event (no None check in the code).
PressKeyUp ==
  /\ pc = "pk_up"
  /\ \/ /\ log' = log \o <<Ev("key_up", PageKey(PageCall), NO_MODIFIERS),
                           Ev("sleep", KEY_DELAY_MS, 0)>>
        /\ AfterPressKey
     \/ \* the event was None and CGEventPost(tap, None) did nothing
        /\ SilentFaults < MaxFaults
        /\ log' = log \o <<Ev("post_none", 0, 0), Ev("sleep", KEY_DELAY_MS, 0)>>
        /\ AfterPressKey
     \/ \* the event was None and CGEventPost(tap, None) raised
        /\ Raise(<<>>)
  /\ UNCHANGED <<args, env, i, images, target, image_files, out_exists, pdf>>

\* wait_for_page; navigate_and_wait returns: to its caller, or back to the
\* loop head with the next index.
WaitForPage ==
  /\ pc = "wait_page"
  /\ log' = Append(log, Ev("wait_for_page", args.delay, 0))
  /\ IF args.cmd \in DirectCalls
       THEN /\ outcome' = "returned"
            /\ pc' = "done"
            /\ UNCHANGED i
       ELSE /\ i' = i + 1
            /\ pc' = LoopPc
            /\ UNCHANGED outcome
  /\ UNCHANGED <<args, env, images, target, image_files, out_exists, pdf>>

----------------------------------------------------------------------------
\* capture_with_button (cli.py 80-138) and click (navigator.py 87-112).

BtStart ==
  /\ pc = "bt_start"
  /\ log' = Append(log, Ev("sleep", START_DELAY_MS, 0))
  /\ pc' = "bt_loop"
  /\ UNCHANGED <<args, env, i, images, target, image_files, out_exists, pdf, outcome>>

\* click_and_wait(capture_button, capture_delay): entry.
BtClickCapture ==
  /\ pc = "bt_loop"
  /\ InRange(i, args.pages)
  /\ target' = "capture"
  /\ log' = Append(log, Ev("click_and_wait", args.capture_button.x, args.capture_button.y))
  /\ pc' = "ck_move"
  /\ UNCHANGED <<args, env, i, images, image_files, out_exists, pdf, outcome>>

BtDone ==
  /\ pc = "bt_loop"
  /\ ~InRange(i, args.pages)
  /\ outcome' = "returned"
  /\ pc' = "done"
  /\ UNCHANGED <<args, env, i, images, target, image_files, log, out_exists, pdf>>

ClickMove ==
  /\ pc = "ck_move"
  /\ \/ /\ log' = log \o <<Ev("mouse_move", TargetPoint.x, TargetPoint.y),
                           Ev("sleep", CLICK_MOVE_DELAY_MS, 0)>>
        /\ pc' = "ck_down"
        /\ UNCHANGED outcome
     \/ \* the event was None and posting it did nothing
        /\ SilentFaults < MaxFaults
        /\ log' = log \o <<Ev("post_none", 0, 0), Ev("sleep", CLICK_MOVE_DELAY_MS, 0)>>
        /\ pc' = "ck_down"
        /\ UNCHANGED outcome
     \/ \* the event was None and posting it raised
        /\ Abort(<<>>)
  /\ UNCHANGED <<args, env, i, images, target, image_files, out_exists, pdf>>

ClickDown ==
  /\ pc = "ck_down"
  /\ \/ /\ log' = log \o <<Ev("mouse_down", TargetPoint.x, TargetPoint.y),
                           Ev("sleep", CLICK_DOWN_DELAY_MS, 0)>>
        /\ pc' = "ck_up"
        /\ UNCHANGED outcome
     \/ /\ SilentFaults < MaxFaults
        /\ log' = log \o <<Ev("post_none", 0, 0), Ev("sleep", CLICK_DOWN_DELAY_MS, 0)>>
        /\ pc' = "ck_up"
        /\ UNCHANGED outcome
     \/ /\ Abort(<<>>)
  /\ UNCHANGED <<args, env, i, images, target, image_files, out_exists, pdf>>

\* What capture_with_button does once a click_and_wait has returned.
AfterClick(posted) ==
  IF target = "capture" /\ args.confirm_button # None
    THEN /\ target' = "confirm"
         /\ log' = log \o posted \o <<Ev("click_and_wait", args.confirm_button[1].x,
                                             args.confirm_button[1].y)>>
         /\ pc' = "ck_move"
         /\ UNCHANGED i
    ELSE /\ target' = "none"
         /\ log' = log \o posted
         /\ pc' = IF NotLastPage(i, args.pages) THEN "pk_down" ELSE "bt_loop"
         /\ i' = IF NotLastPage(i, args.pages) THEN i ELSE i + 1

\* click: the mouse-up event and the last sleep; click_and_wait: sleep(wait).
ClickUp ==
  /\ pc = "ck_up"
  /\ \/ /\ AfterClick(<<Ev("mouse_up", TargetPoint.x, TargetPoint.y),
                        Ev("sleep", CLICK_UP_DELAY_MS, 0), Ev("sleep", TargetWait, 0)>>)
        /\ UNCHANGED outcome
     \/ /\ SilentFaults < MaxFaults
        /\ AfterClick(<<Ev("post_none", 0, 0),
                        Ev("sleep", CLICK_UP_DELAY_MS, 0), Ev("sleep", TargetWait, 0)>>)
        /\ UNCHANGED outcome
     \/ /\ Abort(<<>>)
        /\ UNCHANGED <<i, target>>
  /\ UNCHANGED <<args, env, images, image_files, out_exists, pdf>>

----------------------------------------------------------------------------
\* The compile command (cli.py 218-254).

\* glob, the empty check, the sort.
CcGlob ==
  /\ pc = "cc_glob"
  /\ IF NoFiles(env.files)
       THEN /\ image_files' = env.files
            /\ log' = Append(log, Ev("no_images", 0, 0))
            /\ outcome' = "exit1"
            /\ pc' = "done"
       ELSE /\ image_files' = SortFiles(env.files, args.sort)
            /\ log' = Append(log, Ev("sorted", Len(env.files), 0))
            /\ pc' = "cc_open"
            /\ UNCHANGED outcome
  /\ UNCHANGED <<args, env, i, images, target, out_exists, pdf>>

\* open(output_path, "wb")
CcOpen ==
  /\ pc = "cc_open"
  /\ \/ /\ out_exists' = TRUE
        /\ log' = Append(log, Ev("open", 0, 0))
        /\ pc' = "cc_convert"
        /\ UNCHANGED outcome
     \/ \* the path is unwritable: the OSError is not caught
        /\ log' = Append(log, Ev("raise", 0, 0))
        /\ outcome' = "raised"
        /\ pc' = "done"
        /\ UNCHANGED out_exists
  /\ UNCHANGED <<args, env, i, images, target, image_files, pdf>>

\* f.write(img2pdf.convert(...))
CcConvert ==
  /\ pc = "cc_convert"
  /\ \/ /\ pdf' = ConvertFiles(image_files)
        /\ log' = Append(log, Ev("convert", Len(image_files), 0))
        /\ outcome' = "returned"
     \/ \* img2pdf refused a file: the exception is not caught
        /\ log' = Append(log, Ev("raise", 0, 0))
        /\ outcome' = "raised"
        /\ UNCHANGED pdf
  /\ pc' = "done"
  /\ UNCHANGED <<args, env, i, images, target, image_files, out_exists>>

----------------------------------------------------------------------------
\* PDFCompiler.compile called directly (pdf_compiler.py 11-47).

PdfCompile ==
  /\ pc = "pdf_compile"
  /\ \/ /\ NoImages(args.images)
        /\ log' = log \o <<Ev("compile", Len(args.images), 0), Ev("raise", 0, 0)>>
        /\ outcome' = "raised"
        /\ UNCHANGED <<out_exists, pdf>>
     \/ /\ ~NoImages(args.images)
        /\ log' = Append(log, Ev("compile", Len(args.images), 0))
        /\ pdf' = AtResolution(SavePDF(rgb_images(args.images)), args.dpi)
        /\ out_exists' = TRUE
        /\ outcome' = "returned"
     \/ /\ ~NoImages(args.images)
        /\ log' = log \o <<Ev("compile", Len(args.images), 0), Ev("raise", 0, 0)>>
        /\ outcome' = "raised"
        /\ out_exists' \in BOOLEAN
        /\ UNCHANGED pdf
  /\ pc' = "done"
  /\ UNCHANGED <<args, env, i, images, target, image_files>>

----------------------------------------------------------------------------
\* PDFCompiler.compile_from_files (pdf_compiler.py 49-62); args.images[k] is
\* the image stored at image_paths[k].

\* images = [Image.open(path) for path in image_paths]: the next path.
CffOpen ==
  /\ pc = "cff_open"
  /\ i < Len(args.images)
  /\ \/ /\ images' = Append(images, args.images[i + 1])
        /\ log' = Append(log, Ev("open_image", i + 1, 0))
        /\ i' = i + 1
        /\ UNCHANGED <<pc, outcome>>
     \/ \* Image.open raised (no such file, not an image): nothing is closed
        /\ log' = log \o <<Ev("open_failed", i + 1, 0), Ev("raise", 0, 0)>>
        /\ outcome' = "raised"
        /\ pc' = "done"
        /\ UNCHANGED <<i, images>>
  /\ UNCHANGED <<args, env, target, image_files, out_exists, pdf>>

\* self.compile(images, output_path, dpi=dpi)
CffCompile ==
  /\ pc = "cff_open"
  /\ i >= Len(args.images)
  /\ \/ /\ NoImages(images)
        /\ log' = log \o <<Ev("compile", Len(images), 0), Ev("raise", 0, 0)>>
        /\ outcome' = "raised"
        /\ pc' = "done"
        /\ UNCHANGED <<i, out_exists, pdf>>
     \/ /\ ~NoImages(images)
        /\ log' = Append(log, Ev("compile", Len(images), 0))
        /\ pdf' = AtResolution(SavePDF(rgb_images(images)), args.dpi)
        /\ out_exists' = TRUE
        /\ i' = 0
        /\ pc' = "cff_close"
        /\ UNCHANGED outcome
     \/ \* the save failed: the exception leaves compile_from_files at once
        /\ ~NoImages(images)
        /\ log' = log \o <<Ev("compile", Len(images), 0), Ev("raise", 0, 0)>>
        /\ outcome' = "raised"
        /\ pc' = "done"
        /\ out_exists' \in BOOLEAN
        /\ UNCHANGED <<i, pdf>>
  /\ UNCHANGED <<args, env, images, target, image_files>>

\* for img in images: img.close()
CffClose ==
  /\ pc = "cff_close"
  /\ i < Len(images)
  /\ log' = Append(log, Ev("close_image", images[i + 1].id, 0))
  /\ i' = i + 1
  /\ UNCHANGED <<args, env, pc, images, target, image_files, out_exists, pdf, outcome>>

CffReturn ==
  /\ pc = "cff_close"
  /\ i >= Len(images)
  /\ outcome' = "returned"
  /\ pc' = "done"
  /\ UNCHANGED <<args, env, i, images, target, image_files, log, out_exists, pdf>>

----------------------------------------------------------------------------
\* Process termination, the only way to stop a run.
Kill ==
  /\ pc # "done"
  /\ pc' = "done"
  /\ outcome' = "killed"
  /\ UNCHANGED <<args, env, i, images, target, image_files, log, out_exists, pdf>>

Next ==
  \/ CheckScreenRecording
  \/ CheckAccessibility
  \/ CbCapture
  \/ CbCompile
  \/ PressKeyDown
  \/ PressKeyUp
  \/ WaitForPage
  \/ BtStart
  \/ BtClickCapture
  \/ BtDone
  \/ ClickMove
  \/ ClickDown
  \/ ClickUp
  \/ CcGlob
  \/ CcOpen
  \/ CcConvert
  \/ PdfCompile
  \/ CffOpen
  \/ CffCompile
  \/ CffClose
  \/ CffReturn
  \/ Kill

Spec == Init /\ [][Next]_vars

----------------------------------------------------------------------------
\* Reading the trace.

OpsOf(S) == SelectSeq(log, LAMBDA e : e.op \in S)

HasOp(op) == \E k \in 1..Len(log) : log[k].op = op

IsPrefix(s, t) == Len(s) <= Len(t) /\ SubSeq(t, 1, Len(s)) = s

Captures == OpsOf({"capture"})

CaptureBookRun == args.cmd \in {"screenshot", "main"} /\ HasOp("capture_book")

ButtonRun == args.cmd = "button" /\ HasOp("capture_with_button")

\* No step of the run has raised.
NoFailure == ~HasOp("raise")

\* The run has ended by itself (not by process termination).
Finished == pc = "done" /\ outcome # "killed"

\* The image sequence the compiler was given.
CompileInput == IF args.cmd = "pdf_compile" THEN args.images ELSE images

----------------------------------------------------------------------------
\* C1: whenever PDFCompiler.compile has returned (called directly or by
\* capture_book), its input was non-empty, the document has as many pages as
\* the input has images, and page k is built from the k-th input image.
C1_PagesFollowImages ==
  (args.cmd \in {"pdf_compile", "screenshot", "main"} /\ outcome = "returned") =>
    /\ Len(CompileInput) >= 1
    /\ Len(pdf) = Len(CompileInput)
    /\ \A k \in 1..Len(pdf) :
         /\ pdf[k].id = CompileInput[k].id
         /\ pdf[k].width = CompileInput[k].width
         /\ pdf[k].height = CompileInput[k].height

\* A direct call with three images of three different modes has returned.
C1_Witness ==
  /\ args.cmd = "pdf_compile"
  /\ outcome = "returned"
  /\ Len(pdf) = 3
  /\ args.images[1].mode = "RGBA" /\ args.images[2].mode = "L" /\ args.images[3].mode = "RGB"

\* C2: a run of capture_book with page count N >= 1 in which no step has
\* failed ends by returning (no sys.exit(1)), and the document then has
\* exactly N pages, page k built from the k-th capture.
C2_FailureFreeRunYieldsNPages ==
  (CaptureBookRun /\ args.pages >= 1 /\ Finished /\ NoFailure) =>
    /\ outcome = "returned"
    /\ out_exists
    /\ Len(pdf) = args.pages
    /\ Len(Captures) = args.pages
    /\ \A k \in 1..Len(pdf) : pdf[k].id = Captures[k].a

\* The screenshot command, region mode, three pages, has returned.
C2_Witness ==
  /\ args.cmd = "screenshot"
  /\ args.region # None
  /\ args.pages = 3
  /\ outcome = "returned"
  /\ Len(pdf) = 3

\* The calls a failure-free capture_book makes, from page index idx on.
RECURSIVE ExpectedFrom(_, _, _)
ExpectedFrom(idx, n, delay) ==
  IF idx >= n THEN <<Ev("compile", n, 0)>>
  ELSE <<Ev("capture", idx + 1, 0)>>
       \o (IF idx < n - 1 THEN <<Ev("next_page", 0, 0), Ev("wait_for_page", delay, 0)>>
           ELSE <<>>)
       \o ExpectedFrom(idx + 1, n, delay)

CallTrace == OpsOf({"capture", "capture_failed", "next_page", "wait_for_page", "compile"})

\* C3: in a run of capture_book with page count N >= 1, as long as no step
\* has failed the calls made so far are a prefix of: for i = 0..N-1 one
\* capture, then, only if i < N-1, one next_page and one wait of the
\* configured delay; then one compile of N images.  When the run has
\* returned they are exactly that sequence, so there are N captures, N-1
\* navigations, none after the last capture, and one compile, of N images,
\* after the last capture.
C3_CallOrder ==
  (CaptureBookRun /\ args.pages >= 1 /\ NoFailure) =>
    /\ IsPrefix(CallTrace, ExpectedFrom(0, args.pages, args.delay))
    /\ outcome = "returned" =>
         /\ CallTrace = ExpectedFrom(0, args.pages, args.delay)
         /\ Len(OpsOf({"capture"})) = args.pages
         /\ Len(OpsOf({"next_page"})) = args.pages - 1
         /\ Len(OpsOf({"compile"})) = 1
         /\ log[Len(log)] = Ev("compile", args.pages, 0)
         /\ Len(images) = args.pages

\* The legacy main, full screen, at least two pages, has returned.
C3_Witness ==
  /\ args.cmd = "main"
  /\ args.region = None
  /\ args.pages >= 2
  /\ outcome = "returned"
  /\ HasOp("wait_for_page")

\* C4: in capture_book and capture_with_button a step that raises is the
\* last thing the run does: nothing follows it in the trace (no later
\* capture, navigation or compile, no second try), and the run is over with
\* exit status 1.
C4_RaiseAborts ==
  (CaptureBookRun \/ ButtonRun) =>
    \A k \in 1..Len(log) :
      log[k].op = "raise" => (k = Len(log) /\ pc = "done" /\ outcome = "exit1")

\* A run that failed after at least one page had been captured and one
\* navigation made.
C4_Witness ==
  /\ CaptureBookRun
  /\ HasOp("raise")
  /\ HasOp("capture")
  /\ HasOp("key_up")
  /\ outcome = "exit1"

\* C5: in a run of capture_book the output file exists (and the document
\* has pages) only once compile has been called, which happens only after
\* all N captures; before that, also when the run was killed or aborted
\* during capture or navigation, the run has written nothing.
C5_OutputOnlyAfterAllCaptures ==
  CaptureBookRun =>
    /\ (out_exists \/ pdf # <<>>) =>
         /\ HasOp("compile")
         /\ pc = "done"
         /\ Len(Captures) = args.pages
         /\ Len(images) = args.pages
    /\ ~HasOp("compile") => (~out_exists /\ pdf = <<>>)

\* The output was written by a run that captured two pages or more.
C5_Witness ==
  /\ CaptureBookRun
  /\ out_exists
  /\ outcome = "returned"
  /\ Len(images) >= 2
  /\ args.region = None

\* C6: compiling an empty input fails and leaves no output file.  A direct
\* compile call with no image never creates the output and ends by
\* raising; the compile command with no matching file never opens the
\* output and ends with exit status 1.
C6_EmptyInputWritesNothing ==
  /\ (args.cmd = "pdf_compile" /\ args.images = <<>>) =>
       /\ ~out_exists /\ pdf = <<>>
       /\ Finished => outcome = "raised"
  /\ (args.cmd = "compile" /\ env.files = <<>>) =>
       /\ ~out_exists /\ pdf = <<>> /\ ~HasOp("open")
       /\ Finished => outcome = "exit1"

\* A direct compile call with no image has raised.
C6_Witness ==
  /\ args.cmd = "pdf_compile"
  /\ args.images = <<>>
  /\ outcome = "raised"
  /\ HasOp("compile")

\* C7: every image capture_region has returned has exactly the region's
\* width and height, whatever size the platform image had, and it was
\* resampled exactly when the platform image's size differed.
C7_RegionSizeExact ==
  (CaptureBookRun /\ args.region # None) =>
    \A k \in 1..Len(images) :
      /\ images[k].width = args.region[1].width
      /\ images[k].height = args.region[1].height
      /\ images[k].resampled <=>
           (env.size.width # args.region[1].width \/ env.size.height # args.region[1].height)

\* A platform image as wide as the region but taller was captured.
C7_Witness ==
  /\ CaptureBookRun
  /\ args.region # None
  /\ Len(images) >= 1
  /\ env.size.width = args.region[1].width
  /\ env.size.height > args.region[1].height
  /\ images[1].resampled

DistinctMtimes(files) ==
  \A a, b \in 1..Len(files) : a # b => files[a].mtime # files[b].mtime

Ascending(files) ==
  \A a, b \in 1..Len(files) : a < b => files[a].mtime < files[b].mtime

\* C8: when the matched files have pairwise distinct modification times,
\* the order the compile command uses with --sort time is ascending by
\* modification time, and the orders it uses with --sort time and
\* --sort time-desc are each the reverse of the other.
C8_TimeDescReversesTime ==
  (args.cmd = "compile" /\ HasOp("sorted") /\ DistinctMtimes(env.files)) =>
    /\ args.sort = "time" =>
         /\ Ascending(image_files)
         /\ image_files = Reverse(SortFiles(env.files, "time-desc"))
    /\ args.sort = "time-desc" =>
         /\ Ascending(Reverse(image_files))
         /\ image_files = Reverse(SortFiles(env.files, "time"))

\* Three files with distinct times, globbed in neither order, sorted
\* newest first.
C8_Witness ==
  /\ args.cmd = "compile"
  /\ args.sort = "time-desc"
  /\ HasOp("sorted")
  /\ Len(env.files) = 3
  /\ DistinctMtimes(env.files)
  /\ env.files[2].mtime < env.files[1].mtime
  /\ env.files[2].mtime < env.files[3].mtime
  /\ image_files # env.files

CaptureOps == {"capture", "capture_failed"}

InputOps ==
  {"next_page", "click_and_wait", "key_down", "key_up",
   "mouse_move", "mouse_down", "mouse_up", "post_none"}

\* C9: in the screenshot and button commands and the legacy main, every
\* capture call comes after a screen-recording check that returned true and
\* every input-simulation call after an accessibility check that returned
\* true; a check that returned false is the last thing the run does, the
\* run ends with exit status 1 and has made no capture and no input call.
C9_PermissionsGateCalls ==
  (args.cmd \in {"screenshot", "button", "main"}) =>
    \A k \in 1..Len(log) :
      /\ log[k].op \in CaptureOps =>
           \E j \in 1..(k - 1) : log[j] = Ev("check_screen", 1, 0)
      /\ log[k].op \in InputOps =>
           \E j \in 1..(k - 1) : log[j] = Ev("check_access", 1, 0)
      /\ (log[k].op \in {"check_screen", "check_access"} /\ log[k].a = 0) =>
           /\ k = Len(log)
           /\ pc = "done"
           /\ outcome = "exit1"
           /\ OpsOf(CaptureOps \cup InputOps) = <<>>

\* The screenshot command has captured a page and pressed a key.
C9_Witness ==
  /\ args.cmd = "screenshot"
  /\ HasOp("capture")
  /\ HasOp("key_down")
  /\ env.screen_ok /\ env.access_ok

\* C10: every key-down event is followed by the fixed delay and then by the
\* key-up event of the same key code and flags (unless the call is still
\* running, was killed, or raised there), every key-up event follows such a
\* key-down, and the same holds for the left-button-down and
\* left-button-up events of click at one point: no call gets past a down
\* event without posting its up event.
C10_DownThenUp ==
  \A k \in 1..Len(log) :
    /\ log[k].op = "key_down" =>
         /\ k + 1 <= Len(log) => log[k + 1] = Ev("sleep", KEY_DELAY_MS, 0)
         /\ k + 2 <= Len(log) =>
              (log[k + 2] = Ev("key_up", log[k].a, log[k].b) \/ log[k + 2].op = "raise")
    /\ log[k].op = "key_up" =>
         (k >= 3 /\ log[k - 2] = Ev("key_down", log[k].a, log[k].b))
    /\ log[k].op = "mouse_down" =>
         /\ k + 1 <= Len(log) => log[k + 1] = Ev("sleep", CLICK_DOWN_DELAY_MS, 0)
         /\ k + 2 <= Len(log) =>
              (log[k + 2] = Ev("mouse_up", log[k].a, log[k].b) \/ log[k + 2].op = "raise")
    /\ log[k].op = "mouse_up" =>
         (k >= 3 /\ log[k - 2] = Ev("mouse_down", log[k].a, log[k].b))

\* C11: press_key and click raise whenever the creation of one of their
\* events (key down, key up; mouse move, down, up) yields no event: no None
\* event is ever handed on to CGEventPost with the call going on, and in
\* capture_book and capture_with_button the run then ends with exit status 1.
C11_NoEventMeansRaise ==
  (CaptureBookRun \/ ButtonRun) =>
    /\ ~HasOp("post_none")
    /\ HasOp("raise") => (pc = "done" /\ outcome = "exit1")

\* C12: whenever compile has returned, every page is opaque RGB and was made
\* from its input image by the rule of the claim: an input with an alpha
\* channel was pasted on a white background with its alpha as mask, any other
\* input that is not RGB was converted, an RGB input was passed on unchanged.
C12_AlphaFlattenedOnWhite ==
  (args.cmd \in {"pdf_compile", "screenshot", "main"} /\ outcome = "returned") =>
    \A k \in 1..Len(pdf) :
      /\ pdf[k].mode = "RGB"
      /\ pdf[k].how = IF HasAlpha(CompileInput[k].mode) THEN "paste_on_white"
                      ELSE IF CompileInput[k].mode # "RGB" THEN "convert"
                      ELSE "asis"

----------------------------------------------------------------------------
\* What one click_and_wait(p.x, p.y, wait) leaves in the trace.
ClickAndWait(p, wait) ==
  <<Ev("click_and_wait", p.x, p.y),
    Ev("mouse_move", p.x, p.y), Ev("sleep", CLICK_MOVE_DELAY_MS, 0),
    Ev("mouse_down", p.x, p.y), Ev("sleep", CLICK_DOWN_DELAY_MS, 0),
    Ev("mouse_up", p.x, p.y), Ev("sleep", CLICK_UP_DELAY_MS, 0),
    Ev("sleep", wait, 0)>>

\* What one navigate_and_wait leaves in the trace.
NavigateAndWait(delay) ==
  <<Ev("navigate_and_wait", 0, 0), Ev("next_page", 0, 0),
    Ev("press_key", RIGHT_ARROW, NO_MODIFIERS),
    Ev("key_down", RIGHT_ARROW, NO_MODIFIERS), Ev("sleep", KEY_DELAY_MS, 0),
    Ev("key_up", RIGHT_ARROW, NO_MODIFIERS), Ev("sleep", KEY_DELAY_MS, 0),
    Ev("wait_for_page", delay, 0)>>

\* The trace of pages idx+1 .. n of a capture_with_button run without failure.
RECURSIVE ExpectedButtonFrom(_, _)
ExpectedButtonFrom(idx, n) ==
  IF idx >= n THEN <<>>
  ELSE ClickAndWait(args.capture_button, CAPTURE_DELAY_MS)
       \o (IF args.confirm_button # None
             THEN ClickAndWait(args.confirm_button[1], CONFIRM_DELAY_MS) ELSE <<>>)
       \o (IF idx < n - 1 THEN NavigateAndWait(args.delay) ELSE <<>>)
       \o ExpectedButtonFrom(idx + 1, n)

ExpectedButtonRun ==
  <<Ev("check_access", 1, 0), Ev("capture_with_button", args.pages, 0),
    Ev("sleep", START_DELAY_MS, 0)>> \o ExpectedButtonFrom(0, args.pages)

\* Every event that was to be created has been created.
AllEventsCreated == ~HasOp("post_none")

ClicksOn(p) == SelectSeq(log, LAMBDA e : e = Ev("click_and_wait", p.x, p.y))

\* C13: in a run of capture_with_button with page count N >= 1 in which no
\* step has failed, the trace is, page by page: one click on the capture
\* button and the capture delay; if a confirm button is given, one click on it
\* and the confirm delay; if the page is not the last, one next-page key press
\* and the page delay. A finished run has made N capture clicks, N confirm
\* clicks (none without a confirm button) and N-1 navigations, has captured
\* no screen and has compiled no document.
C13_ButtonRunSequence ==
  (ButtonRun /\ args.pages >= 1 /\ NoFailure) =>
    /\ AllEventsCreated => IsPrefix(log, ExpectedButtonRun)
    /\ (AllEventsCreated /\ Finished) => log = ExpectedButtonRun
    /\ Finished =>
         /\ outcome = "returned"
         /\ Len(ClicksOn(args.capture_button)) = args.pages
         /\ Len(OpsOf({"click_and_wait"})) =
              (IF args.confirm_button # None THEN 2 ELSE 1) * args.pages
         /\ Len(OpsOf({"next_page"})) = args.pages - 1
         /\ Len(OpsOf({"wait_for_page"})) = args.pages - 1
    /\ OpsOf(CaptureOps \cup {"compile"}) = <<>>
    /\ ~out_exists /\ pdf = <<>> /\ images = <<>>

\* A run for MaxPages pages with a confirm button has returned without failure.
C13_Witness ==
  /\ ButtonRun /\ NoFailure /\ AllEventsCreated
  /\ args.pages = MaxPages
  /\ args.confirm_button # None
  /\ outcome = "returned"
  /\ Len(OpsOf({"mouse_up"})) = 2 * MaxPages

----------------------------------------------------------------------------
Abs(n) == IF n < 0 THEN -n ELSE n

\* C14: compiling a single image with compile's default dpi gives a document
\* of one page whose width in PDF units (width * 72 / dpi) differs from the
\* image's width in pixels by less than 10; the sample image is 800 wide.
C14_PageWidthMatchesImage ==
  (args.cmd = "pdf_compile" /\ outcome = "returned"
     /\ Len(args.images) = 1 /\ args.dpi = DEFAULT_DPI) =>
    /\ Len(pdf) = 1
    /\ Abs(pdf[1].mediabox.width_num - args.images[1].width * pdf[1].mediabox.den)
         < 10 * pdf[1].mediabox.den

----------------------------------------------------------------------------
\* The images compile_from_files has opened and not closed.
OpenImages ==
  {k \in 1..Len(args.images) :
     /\ \E e \in 1..Len(log) : log[e] = Ev("open_image", k, 0)
     /\ ~\E e \in 1..Len(log) : log[e] = Ev("close_image", k, 0)}

\* C15: compile_from_files opens the images in path order, hands them to
\* compile in that order with the dpi it was given, closes the images only
\* after the compilation, and leaves no image open when it is over (by
\* return or by exception).
C15_OpensInOrderAndClosesAll ==
  args.cmd = "compile_from_files" =>
    /\ OpsOf({"open_image"}) = [k \in 1..Len(images) |-> Ev("open_image", k, 0)]
    /\ IsPrefix(images, args.images)
    /\ HasOp("compile") => images = args.images
    /\ \A k \in 1..Len(pdf) :
         pdf[k].id = args.images[k].id /\ pdf[k].mediabox.den = args.dpi
    /\ HasOp("close_image") => (HasOp("compile") /\ NoFailure)
    /\ Finished => OpenImages = {}

----------------------------------------------------------------------------
PressKeys == OpsOf({"press_key"})

PageCalls == OpsOf({"next_page", "previous_page"})

\* C16: every call of next_page makes exactly one call of press_key, for the
\* right-arrow key with no modifiers, and every call of previous_page exactly
\* one, for the left-arrow key with no modifiers; press_key is called by
\* nothing else, and the key events posted carry that key and no modifiers.
\* navigate_and_wait calls next_page and, once that has returned, waits the
\* page delay.
C16_PageKeys ==
  /\ Len(PressKeys) = Len(PageCalls)
  /\ \A k \in 1..Len(log) :
       /\ log[k].op = "next_page" =>
            (k < Len(log) /\ log[k + 1] = Ev("press_key", RIGHT_ARROW, NO_MODIFIERS))
       /\ log[k].op = "previous_page" =>
            (k < Len(log) /\ log[k + 1] = Ev("press_key", LEFT_ARROW, NO_MODIFIERS))
       /\ log[k].op = "press_key" =>
            (k > 1 /\ log[k - 1].op \in {"next_page", "previous_page"})
       /\ log[k].op \in {"key_down", "key_up"} =>
            \E c \in 1..k : /\ log[c].op = "press_key"
                            /\ log[c].a = log[k].a /\ log[c].b = log[k].b
                            /\ \A d \in (c + 1)..k : log[d].op # "press_key"
       /\ log[k].op = "navigate_and_wait" =>
            (k < Len(log) /\ log[k + 1].op = "next_page")
       /\ log[k].op = "wait_for_page" =>
            /\ log[k].a = args.delay
            /\ \E c \in 1..k : /\ log[c].op = "navigate_and_wait"
                               /\ \A d \in (c + 1)..(k - 1) :
                                    log[d].op \notin {"navigate_and_wait", "raise", "wait_for_page"}
  /\ (args.cmd = "navigate_and_wait" /\ outcome = "returned") =>
       OpsOf({"navigate_and_wait", "next_page", "previous_page", "press_key", "wait_for_page"})
         = <<Ev("navigate_and_wait", 0, 0), Ev("next_page", 0, 0),
             Ev("press_key", RIGHT_ARROW, NO_MODIFIERS), Ev("wait_for_page", args.delay, 0)>>
  /\ (args.cmd \in {"next_page", "previous_page"} /\ outcome = "returned") =>
       /\ Len(PressKeys) = 1
       /\ OpsOf({"wait_for_page", "navigate_and_wait"}) = <<>>

\* previous_page has returned after posting the left-arrow key down and up.
C16_Witness ==
  /\ args.cmd = "previous_page"
  /\ outcome = "returned"
  /\ OpsOf({"key_down", "key_up"}) =
       <<Ev("key_down", LEFT_ARROW, NO_MODIFIERS), Ev("key_up", LEFT_ARROW, NO_MODIFIERS)>>

----------------------------------------------------------------------------
\* C17: with a page count N <= 0, capture_book captures nothing and navigates
\* nowhere; it calls the compiler with the empty sequence, the compiler
\* raises, and the run ends with exit status 1 and without a document. No run
\* of capture_book ends successfully with a document of zero pages.
C17_NoPagesNoDocument ==
  /\ (CaptureBookRun /\ args.pages <= 0) =>
       /\ OpsOf(CaptureOps \cup InputOps) = <<>>
       /\ images = <<>> /\ pdf = <<>> /\ ~out_exists
       /\ outcome # "returned"
       /\ Finished =>
            /\ outcome = "exit1"
            /\ OpsOf({"compile", "raise"}) = <<Ev("compile", 0, 0), Ev("raise", 0, 0)>>
  /\ (CaptureBookRun /\ outcome = "returned") => (args.pages >= 1 /\ Len(pdf) >= 1)

\* A run with a page count below 1 has ended in the compiler's error.
C17_Witness ==
  /\ CaptureBookRun
  /\ args.pages <= 0
  /\ Finished
  /\ outcome = "exit1"
  /\ HasOp("compile")
====
